---- MODULE Spec2Model ----
(***************************************************************************)
(* A model of pupil_interface/zmq_tools.py: the convenience classes for    *)
(* the Pupil IPC backbone (ZMQ_Actor, Msg_Receiver, Msg_Dispatcher,        *)
(* Requester, ZMQ_handler).                                                *)
(*                                                                         *)
(* Python values are represented as follows.                               *)
(*   - a str is a sequence of tokens: 'notify.a' is <<"notify.", "a">>,    *)
(*     '' is <<>>; "x%s" % s is concatenation and a zmq subscription       *)
(*     matches a topic when it is a prefix of it;                          *)
(*   - a dict is a record whose domain is the set of keys it holds;        *)
(*   - the value under key 'v' stands for the rest of a payload: "int1"    *)
(*     (a number), "list12" ([1,2]), "tuple12" ((1,2)) and "object" (an    *)
(*     instance msgpack has no encoding for);                              *)
(*   - a zmq frame is [bytes, more, at]: its content, the SNDMORE flag and *)
(*     the time it was put on the socket.                                  *)
(***************************************************************************)
EXTENDS Integers, Sequences, FiniteSets, TLC

\* ------------------------------------------------------------- bounds
\* calls made on one Msg_Dispatcher
MaxCalls == 2
\* the clock runs from 0 to MaxTime
MaxTime == 2
\* calls made on one Requester
MaxRequests == 3
\* monitor events one constructor reads
MaxEvents == 3

VARIABLES
    owner,      \* who holds the Msg_Dispatcher: "publisher" or "handler" (ZMQ_handler.socket)
    wire,       \* the frames put on the dispatcher's PUB socket, in order
    closed,     \* the dispatcher's socket was closed by __del__
    calls,      \* history: one record per send / notify / emit call
    now,        \* the clock
    subs,       \* the receiver's subscriptions (topic prefixes)
    net,        \* how many frames of wire the transport has taken
    rxq,        \* the frames queued on the receiver's SUB socket
    rpc,        \* Msg_Receiver.recv: "idle", or "topic" once the first frame was read
    rtopic,     \* the first frame recv read
    recvLog,    \* history: one record per finished recv call
    reqState,   \* the Requester's socket: "ready" to send, or "awaiting" a reply
    reqOut,     \* the messages the Requester's socket has sent, in order
    served,     \* how many of them Pupil Remote has answered
    replies,    \* the replies queued on the Requester's socket
    cpc,        \* per caller of the Requester: "idle", or "recv" (blocked in socket.recv)
    reqLog,     \* history: one record per send_cmd / notify call on the Requester
    apc,        \* per ZMQ_Actor: "new", "monitoring", "returned" or "raised"
    sockOpen,   \* per ZMQ_Actor: self.socket exists and is not closed
    monitorOn,  \* per ZMQ_Actor: the socket's monitor is enabled
    events,     \* per ZMQ_Actor: the monitor events __init__ has read
    finalized   \* per ZMQ_Actor: __del__ has run

dvars == <<owner, wire, closed, calls, now, subs, net, rxq, rpc, rtopic, recvLog>>
qvars == <<reqState, reqOut, served, replies, cpc, reqLog>>
avars == <<apc, sockOpen, monitorOn, events, finalized>>
vars == <<dvars, qvars, avars>>

\* ------------------------------------------------------ python values
SubjectStrings == {<<>>, <<"a">>, <<"b">>}
Delays == {-1, 0, 1}
Values == {"int1", "tuple12", "object"}

\* the notifications a caller may pass: dicts with or without 'subject' and 'delay'
Notifications ==
    {[v |-> x] : x \in Values}
    \cup {[subject |-> s, v |-> x] : s \in SubjectStrings, x \in Values}
    \cup {[delay |-> d, v |-> x] : d \in Delays, x \in Values}
    \cup {[subject |-> s, delay |-> d, v |-> x] :
            s \in SubjectStrings, d \in Delays, x \in Values}

\* logging.LogRecord instances, by level name
LogRecords == {[levelname |-> l, msg |-> "m"] : l \in {"INFO", "WARNING"}}

\* topics and payloads passed to send directly
SendTopics == {<<"notify.", "a">>, <<"gaze.">>}
SendPayloads == {[subject |-> <<"a">>, v |-> x] : x \in Values}

Has(d, k) == k \in DOMAIN d

\* dict.get(k, default)
Get(d, k, default) == IF Has(d, k) THEN d[k] ELSE default

\* truth value of a number
Truthy(x) == x # 0

\* str.lower() of a level name
Lower(l) == CASE l = "INFO" -> "info" [] l = "WARNING" -> "warning" [] OTHER -> l

\* str(topic) of a str
Str(t) == t

IsPrefix(p, t) == Len(p) <= Len(t) /\ SubSeq(t, 1, Len(p)) = p

\* ------------------------------------------------------------ msgpack
IsLogRecord(p) == Has(p, "levelname")

\* msgpack encodes numbers, strings, lists, tuples and dicts of them
CanPack(p) == ~IsLogRecord(p) /\ p.v # "object"

\* a list and a tuple have the same encoding, an array
PackValue(x) == CASE x = "int1" -> "I1"
                  [] x = "list12" -> "A12" [] x = "tuple12" -> "A12" [] OTHER -> x

\* an array decodes to a list
UnpackValue(x) == CASE x = "I1" -> "int1"
                    [] x = "A12" -> "list12" [] OTHER -> x

NotPacked == [raw |-> TRUE]
LoadError == [error |-> "ExtraData"]

RawBytes(s) == [text |-> s, packed |-> NotPacked]

\* serializer.dumps(payload), for a payload msgpack can encode
Dumps(p) == [text |-> <<"msgpack">>, packed |-> [map |-> [p EXCEPT !.v = PackValue(p.v)]]]

\* serializer.loads(bytes): fails on bytes that are no msgpack document
CanLoad(b) == b.packed # NotPacked
Loads(b) == [b.packed.map EXCEPT !.v = UnpackValue(b.packed.map.v)]

\* ------------------------------------------------------ Msg_Dispatcher
Frame(b, m) == [bytes |-> b, more |-> m, at |-> now]

\* Msg_Dispatcher.send: the frames on the socket after the call
SendWire(w, topic, payload) ==
    IF CanPack(payload)
    THEN w \o <<Frame(RawBytes(Str(topic)), TRUE), Frame(Dumps(payload), FALSE)>>
    ELSE w \o <<Frame(RawBytes(Str(topic)), TRUE)>>

SendOutcome(payload) == IF CanPack(payload) THEN "returned" ELSE "TypeError"

\* the topic Msg_Dispatcher.notify formats
NotifyTopic(n) ==
    IF Truthy(Get(n, "delay", 0))
    THEN <<"delayed_notify.">> \o n.subject
    ELSE <<"notify.">> \o n.subject

Call(op, arg, topic, w, outcome) ==
    [op |-> op, arg |-> arg, topic |-> topic, at |-> now,
     from |-> Len(wire), to |-> Len(w), outcome |-> outcome]

CanCall == ~closed /\ Len(calls) < MaxCalls

Send(topic, payload) ==
    /\ owner = "publisher"
    /\ CanCall
    /\ wire' = SendWire(wire, topic, payload)
    /\ calls' = Append(calls, Call("send", payload, topic, wire', SendOutcome(payload)))
    /\ UNCHANGED <<owner, closed, now, subs, net, rxq, rpc, rtopic, recvLog>>
    /\ UNCHANGED <<qvars, avars>>

Notify(n) ==
    /\ owner = "publisher"
    /\ CanCall
    /\ IF Has(n, "subject")
       THEN /\ wire' = SendWire(wire, NotifyTopic(n), n)
            /\ calls' = Append(calls,
                   Call("notify", n, NotifyTopic(n), wire', SendOutcome(n)))
       ELSE /\ wire' = wire
            /\ calls' = Append(calls, Call("notify", n, <<>>, wire, "KeyError"))
    /\ UNCHANGED <<owner, closed, now, subs, net, rxq, rpc, rtopic, recvLog>>
    /\ UNCHANGED <<qvars, avars>>

\* ZMQ_handler.emit, on the handler's own dispatcher
Emit(record) ==
    /\ owner = "handler"
    /\ CanCall
    /\ LET topic == <<"logging.", Lower(record.levelname)>>
       IN /\ wire' = SendWire(wire, topic, record)
          /\ calls' = Append(calls, Call("emit", record, topic, wire', SendOutcome(record)))
    /\ UNCHANGED <<owner, closed, now, subs, net, rxq, rpc, rtopic, recvLog>>
    /\ UNCHANGED <<qvars, avars>>

\* Msg_Dispatcher.__del__
Del ==
    /\ ~closed
    /\ closed' = TRUE
    /\ UNCHANGED <<owner, wire, calls, now, subs, net, rxq, rpc, rtopic, recvLog>>
    /\ UNCHANGED <<qvars, avars>>

Tick ==
    /\ now < MaxTime
    /\ now' = now + 1
    /\ UNCHANGED <<owner, wire, closed, calls, subs, net, rxq, rpc, rtopic, recvLog>>
    /\ UNCHANGED <<qvars, avars>>

\* ------------------------------------------------ transport, Msg_Receiver
\* the index of the last frame of the message that starts at frame i of w, 0 if incomplete
RECURSIVE LastFrame(_, _)
LastFrame(w, i) ==
    IF i > Len(w) THEN 0
    ELSE IF ~w[i].more THEN i
    ELSE LastFrame(w, i + 1)

Matches(topicBytes) == \E p \in subs : IsPrefix(p, topicBytes.text)

\* the PUB socket hands a complete multipart message to the subscribers whose
\* subscription is a prefix of its first frame
Deliver ==
    /\ LastFrame(wire, net + 1) > 0
    /\ LET last == LastFrame(wire, net + 1)
       IN /\ net' = last
          /\ rxq' = IF Matches(wire[net + 1].bytes)
                    THEN rxq \o SubSeq(wire, net + 1, last)
                    ELSE rxq
    /\ UNCHANGED <<owner, wire, closed, calls, now, subs, rpc, rtopic, recvLog>>
    /\ UNCHANGED <<qvars, avars>>

\* Msg_Receiver.recv, first line: topic = self.socket.recv()
RecvTopic ==
    /\ rpc = "idle"
    /\ rxq # <<>>
    /\ rtopic' = Head(rxq).bytes
    /\ rxq' = Tail(rxq)
    /\ rpc' = "topic"
    /\ UNCHANGED <<owner, wire, closed, calls, now, subs, net, recvLog>>
    /\ UNCHANGED <<qvars, avars>>

\* Msg_Receiver.recv, second line: payload = serializer.loads(self.socket.recv())
RecvPayload ==
    /\ rpc = "topic"
    /\ rxq # <<>>
    /\ recvLog' = Append(recvLog,
           IF CanLoad(Head(rxq).bytes)
           THEN [topic |-> rtopic, payload |-> Loads(Head(rxq).bytes), outcome |-> "returned"]
           ELSE [topic |-> rtopic, payload |-> LoadError, outcome |-> "ExtraData"])
    /\ rxq' = Tail(rxq)
    /\ rpc' = "idle"
    /\ rtopic' = RawBytes(<<>>)
    /\ UNCHANGED <<owner, wire, closed, calls, now, subs, net>>
    /\ UNCHANGED <<qvars, avars>>

\* the topics a Msg_Receiver is constructed with, as in the module's __main__
TopicChoices == {{<<"notify.">>}, {<<"notify.">>, <<"delayed_notify.">>}, {<<"logging.">>}}

DispatcherInit ==
    /\ owner \in {"publisher", "handler"}
    /\ wire = <<>>
    /\ closed = FALSE
    /\ calls = <<>>
    /\ now = 0
    /\ subs \in TopicChoices
    /\ net = 0
    /\ rxq = <<>>
    /\ rpc = "idle"
    /\ rtopic = RawBytes(<<>>)
    /\ recvLog = <<>>

DispatcherNext ==
    \/ \E t \in SendTopics, p \in SendPayloads : Send(t, p)
    \/ \E n \in Notifications : Notify(n)
    \/ \E r \in LogRecords : Emit(r)
    \/ Del
    \/ Tick
    \/ Deliver
    \/ RecvTopic
    \/ RecvPayload

\* ----------------------------------------------------------- Requester
Callers == {"c1", "c2"}
Commands == {"t", "SUB_PORT"}
ReqNotifications ==
    {[subject |-> <<"a">>, v |-> "int1"], [v |-> "int1"], [subject |-> <<"a">>, v |-> "object"]}

RequesterSocketTypeDealer == "DEALER"
\* the socket type Requester.__init__ passes to ZMQ_Actor.__init__
RequesterSocketType == "REQ"

\* a REQ socket sends only when no reply is outstanding (EFSM otherwise); a DEALER
\* socket has no such state machine
SocketCanSend == RequesterSocketType = "REQ" => reqState = "ready"

Received == {i \in DOMAIN reqLog : reqLog[i].outcome = "returned"}

\* a reply to an earlier request has not been received yet
Outstanding == Len(reqOut) > Cardinality(Received)

Attempt(c, op, outcome, sent) ==
    [caller |-> c, op |-> op, outstanding |-> Outstanding, outcome |-> outcome,
     sent |-> sent, req |-> IF sent = 0 THEN 0 ELSE Len(reqOut) + 1, reply |-> 0]

CanRequest(c) == cpc[c] = "idle" /\ Len(reqLog) < MaxRequests

\* socket.send / socket.send_multipart of one message, then the blocking socket.recv
RequestSend(c, op, message) ==
    IF SocketCanSend
    THEN /\ reqOut' = Append(reqOut, message)
         /\ reqState' = "awaiting"
         /\ cpc' = [cpc EXCEPT ![c] = "recv"]
         /\ reqLog' = Append(reqLog, Attempt(c, op, "pending", 1))
         /\ UNCHANGED <<served, replies>>
    ELSE /\ reqLog' = Append(reqLog, Attempt(c, op, "EFSM", 0))
         /\ UNCHANGED <<reqState, reqOut, served, replies, cpc>>

\* Requester.send_cmd up to the blocking recv
ReqSendCmd(c, cmd) ==
    /\ CanRequest(c)
    /\ RequestSend(c, "send_cmd", <<RawBytes(<<cmd>>)>>)
    /\ UNCHANGED <<dvars, avars>>

\* Requester.notify up to the blocking recv
ReqNotify(c, n) ==
    /\ CanRequest(c)
    /\ IF ~Has(n, "subject")
       THEN /\ reqLog' = Append(reqLog, Attempt(c, "notify", "KeyError", 0))
            /\ UNCHANGED <<reqState, reqOut, served, replies, cpc>>
       ELSE IF ~CanPack(n)
       THEN /\ reqLog' = Append(reqLog, Attempt(c, "notify", "TypeError", 0))
            /\ UNCHANGED <<reqState, reqOut, served, replies, cpc>>
       ELSE RequestSend(c, "notify", <<RawBytes(<<"notify.">> \o n.subject), Dumps(n)>>)
    /\ UNCHANGED <<dvars, avars>>

\* Pupil Remote answers the requests it receives, one reply each, in order
ServerReply ==
    /\ served < Len(reqOut)
    /\ served' = served + 1
    /\ replies' = Append(replies, served + 1)
    /\ UNCHANGED <<reqState, reqOut, cpc, reqLog>>
    /\ UNCHANGED <<dvars, avars>>

PendingOf(c) == CHOOSE i \in DOMAIN reqLog : reqLog[i].caller = c /\ reqLog[i].outcome = "pending"

\* return self.socket.recv()
ReqRecv(c) ==
    /\ cpc[c] = "recv"
    /\ replies # <<>>
    /\ reqLog' = [reqLog EXCEPT ![PendingOf(c)].outcome = "returned",
                                ![PendingOf(c)].reply = Head(replies)]
    /\ replies' = Tail(replies)
    /\ reqState' = "ready"
    /\ cpc' = [cpc EXCEPT ![c] = "idle"]
    /\ UNCHANGED <<reqOut, served>>
    /\ UNCHANGED <<dvars, avars>>

\* the blocking socket.recv is interrupted (KeyboardInterrupt) before a reply is read
ReqInterrupt(c) ==
    /\ cpc[c] = "recv"
    /\ reqLog' = [reqLog EXCEPT ![PendingOf(c)].outcome = "interrupted"]
    /\ cpc' = [cpc EXCEPT ![c] = "idle"]
    /\ UNCHANGED <<reqState, reqOut, served, replies>>
    /\ UNCHANGED <<dvars, avars>>

RequesterInit ==
    /\ reqState = "ready"
    /\ reqOut = <<>>
    /\ served = 0
    /\ replies = <<>>
    /\ cpc = [c \in Callers |-> "idle"]
    /\ reqLog = <<>>

RequesterNext ==
    \/ \E c \in Callers, cmd \in Commands : ReqSendCmd(c, cmd)
    \/ \E c \in Callers, n \in ReqNotifications : ReqNotify(c, n)
    \/ ServerReply
    \/ \E c \in Callers : ReqRecv(c)
    \/ \E c \in Callers : ReqInterrupt(c)

\* ----------------------------------------------------------- ZMQ_Actor
Actors == {"Msg_Receiver", "Msg_Dispatcher", "Requester"}
MonitorEvents == {"EVENT_CONNECTED", "EVENT_CONNECT_DELAYED", "EVENT_CONNECT_RETRIED", "EVENT_CLOSED"}

\* ZMQ_Actor.__init__ up to the first recv_monitor_message (or to its end, when
\* block_unitl_connected is false)
Construct(a, block) ==
    /\ apc[a] = "new"
    /\ sockOpen' = [sockOpen EXCEPT ![a] = TRUE]
    /\ monitorOn' = [monitorOn EXCEPT ![a] = block]
    /\ apc' = [apc EXCEPT ![a] = IF block THEN "monitoring" ELSE "returned"]
    /\ UNCHANGED <<events, finalized>>
    /\ UNCHANGED <<dvars, qvars>>

\* one turn of the while loop of ZMQ_Actor.__init__
MonitorMessage(a, e) ==
    /\ apc[a] = "monitoring"
    /\ Len(events[a]) < MaxEvents
    /\ events' = [events EXCEPT ![a] = Append(@, e)]
    /\ apc' = [apc EXCEPT ![a] =
                 CASE e = "EVENT_CONNECTED" -> "returned"
                   [] e = "EVENT_CONNECT_DELAYED" -> "monitoring"
                   [] OTHER -> "raised"]
    /\ monitorOn' = [monitorOn EXCEPT ![a] = IF e = "EVENT_CONNECTED" THEN FALSE ELSE @]
    /\ UNCHANGED <<sockOpen, finalized>>
    /\ UNCHANGED <<dvars, qvars>>

\* __del__ of Msg_Receiver, Msg_Dispatcher and Requester, run when the object is collected
Finalize(a) ==
    /\ apc[a] \in {"returned", "raised"}
    /\ ~finalized[a]
    /\ sockOpen' = [sockOpen EXCEPT ![a] = FALSE]
    /\ finalized' = [finalized EXCEPT ![a] = TRUE]
    /\ UNCHANGED <<apc, monitorOn, events>>
    /\ UNCHANGED <<dvars, qvars>>

ActorInit ==
    /\ apc = [a \in Actors |-> "new"]
    /\ sockOpen = [a \in Actors |-> FALSE]
    /\ monitorOn = [a \in Actors |-> FALSE]
    /\ events = [a \in Actors |-> <<>>]
    /\ finalized = [a \in Actors |-> FALSE]

ActorNext ==
    \/ \E a \in Actors, block \in BOOLEAN : Construct(a, block)
    \/ \E a \in Actors, e \in MonitorEvents : MonitorMessage(a, e)
    \/ \E a \in Actors : Finalize(a)

\* ------------------------------------------------------ specifications
\* the publisher of __main__ with notification_monitor subscribed to 'notify.'
DispatcherIdle ==
    /\ owner = "publisher"
    /\ wire = <<>>
    /\ closed = FALSE
    /\ calls = <<>>
    /\ now = 0
    /\ subs = {<<"notify.">>}
    /\ net = 0
    /\ rxq = <<>>
    /\ rpc = "idle"
    /\ rtopic = RawBytes(<<>>)
    /\ recvLog = <<>>

\* a Msg_Dispatcher, the transport and a Msg_Receiver
Init == DispatcherInit /\ RequesterInit /\ ActorInit
Next == DispatcherNext
Spec == Init /\ [][Next]_vars

\* a Requester and Pupil Remote
RequesterSpecInit == DispatcherIdle /\ RequesterInit /\ ActorInit
SpecRequester == RequesterSpecInit /\ [][RequesterNext]_vars

\* the construction and collection of the three kinds of ZMQ_Actor
ActorSpecInit == DispatcherIdle /\ RequesterInit /\ ActorInit
SpecActor == ActorSpecInit /\ [][ActorNext]_vars

\* -------------------------------------------- what the claims speak of
\* the complete multipart messages among the frames w, from frame i on
RECURSIVE MessagesFrom(_, _)
MessagesFrom(w, i) ==
    IF LastFrame(w, i) = 0 THEN <<>>
    ELSE <<SubSeq(w, i, LastFrame(w, i))>> \o MessagesFrom(w, LastFrame(w, i) + 1)

Messages(w) == MessagesFrom(w, 1)

\* no frame with the SNDMORE flag is left waiting for its successor
Complete(w) == w = <<>> \/ ~w[Len(w)].more

\* the messages call i completed
PublishedBy(i) ==
    SubSeq(Messages(SubSeq(wire, 1, calls[i].to)),
           Len(Messages(SubSeq(wire, 1, calls[i].from))) + 1,
           Len(Messages(SubSeq(wire, 1, calls[i].to))))

\* message m is the two frames (topic, serialized payload)
IsMessage(m, topic, payload) ==
    /\ Len(m) = 2
    /\ m[1].bytes = RawBytes(topic)
    /\ m[2].bytes = Dumps(payload)

NotifyCalls == {i \in DOMAIN calls : calls[i].op = "notify"}
Returned(i) == calls[i].outcome = "returned"

\* ----------------------------------------------------------------- C10
\* C10: whatever send, notify and emit calls were made, failed ones included, every
\* message on the socket has exactly two frames (topic, serialized payload), and no
\* call leaves a topic frame behind that the next send would be merged into.
C10_TwoFrames ==
    /\ \A k \in DOMAIN Messages(wire) : Len(Messages(wire)[k]) = 2
    /\ \A i \in DOMAIN calls : Complete(SubSeq(wire, 1, calls[i].to))

\* ------------------------------------------------------------------ C8
\* C8: every notify call that has a subject and returns has published exactly one
\* message, on delayed_notify.<subject> when delay is present and non-zero and on
\* notify.<subject> otherwise, carrying the notification; so the messages on the
\* socket are those of the calls, one each, in call order.
C8_OneMessagePerNotify ==
    \A i \in NotifyCalls :
        Has(calls[i].arg, "subject") /\ Returned(i) =>
            /\ Len(PublishedBy(i)) = 1
            /\ IsMessage(PublishedBy(i)[1],
                   IF Has(calls[i].arg, "delay") /\ calls[i].arg.delay # 0
                   THEN <<"delayed_notify.">> \o calls[i].arg.subject
                   ELSE <<"notify.">> \o calls[i].arg.subject,
                   calls[i].arg)

\* ------------------------------------------------------------------ C2
\* what section 4.1 of the spec rejects
Invalid(n) ==
    \/ ~Has(n, "subject")
    \/ Has(n, "subject") /\ n.subject = <<>>
    \/ Has(n, "delay") /\ n.delay < 0

\* C2: a notify call whose notification is valid and has no delay, or delay zero,
\* publishes exactly one message, on notify.<subject>, before it returns, whatever
\* was issued before it.
C2_ImmediateSend ==
    \A i \in NotifyCalls :
        /\ Returned(i)
        /\ ~Invalid(calls[i].arg)
        /\ (~Has(calls[i].arg, "delay") \/ calls[i].arg.delay = 0)
        => PublishedBy(i) =
             <<SubSeq(wire, calls[i].from + 1, calls[i].to)>>
           /\ calls[i].to = calls[i].from + 2
           /\ wire[calls[i].from + 1].bytes = RawBytes(<<"notify.">> \o calls[i].arg.subject)
           /\ wire[calls[i].to].bytes = Dumps(calls[i].arg)
           /\ wire[calls[i].to].at = calls[i].at

\* ------------------------------------------------------------------ C5
\* C5: notify called with an invalid notification (subject missing or empty, or a
\* negative delay) fails, reports the failure to the caller and puts nothing on the
\* socket.
C5_InvalidRejected ==
    \A i \in NotifyCalls :
        Invalid(calls[i].arg) => ~Returned(i) /\ calls[i].to = calls[i].from

\* ------------------------------------------------------------ C1, C4
IsDelayed(i, s) ==
    /\ calls[i].op = "notify"
    /\ Returned(i)
    /\ Has(calls[i].arg, "subject") /\ calls[i].arg.subject = s
    /\ Has(calls[i].arg, "delay") /\ calls[i].arg.delay > 0

\* the coalescing windows of subject s among calls i..: the first delayed
\* notification of a window sets its deadline, later ones issued before the deadline
\* join it, and ws is the windows found so far
RECURSIVE WindowsFrom(_, _, _)
WindowsFrom(s, i, ws) ==
    IF i > Len(calls) THEN ws
    ELSE IF ~IsDelayed(i, s) THEN WindowsFrom(s, i + 1, ws)
    ELSE IF ws # <<>> /\ calls[i].at < ws[Len(ws)].deadline
    THEN WindowsFrom(s, i + 1, [ws EXCEPT ![Len(ws)].last = i])
    ELSE WindowsFrom(s, i + 1,
             Append(ws, [first |-> i, last |-> i,
                         deadline |-> calls[i].at + calls[i].arg.delay]))

Windows(s) == WindowsFrom(s, 1, <<>>)

\* every notification passed to notify so far is one section 4.1 accepts
AllValid == \A i \in NotifyCalls : ~Invalid(calls[i].arg)

\* the messages published on delayed_notify.<s>, in order
Flushes(s) ==
    SelectSeq(Messages(wire),
              LAMBDA m : m[1].bytes = RawBytes(<<"delayed_notify.">> \o s))

\* C1: the delayed notifications of one subject issued within one coalescing window
\* are published as one message on delayed_notify.<subject>, carrying the payload of
\* the last of them, no earlier than the first one's issue time plus its delay.
C1_Coalesced ==
    AllValid =>
    \A s \in SubjectStrings :
        /\ Len(Flushes(s)) <= Len(Windows(s))
        /\ \A k \in DOMAIN Flushes(s) :
              /\ k <= Len(Windows(s))
              => /\ Len(Flushes(s)[k]) = 2
                 /\ Flushes(s)[k][2].at >= Windows(s)[k].deadline
                 /\ Flushes(s)[k][2].bytes = Dumps(calls[Windows(s)[k].last].arg)

\* C4: once the dispatcher is torn down, every subject that had a delayed
\* notification pending has been published exactly once per window with the last
\* payload of the window: none is dropped and none is published twice.
C4_FlushedAtTeardown ==
    closed /\ AllValid =>
        \A s \in SubjectStrings :
            /\ Len(Flushes(s)) = Len(Windows(s))
            /\ \A k \in DOMAIN Flushes(s) :
                  k <= Len(Windows(s)) =>
                      Flushes(s)[k][Len(Flushes(s)[k])].bytes =
                          Dumps(calls[Windows(s)[k].last].arg)

\* ------------------------------------------------------------------ C7
\* the (topic, payload) pairs of the sends that returned and match a subscription
RECURSIVE ExpectedFrom(_)
ExpectedFrom(i) ==
    IF i > Len(calls) THEN <<>>
    ELSE IF Returned(i) /\ Matches(RawBytes(Str(calls[i].topic)))
    THEN <<[topic |-> RawBytes(calls[i].topic), payload |-> calls[i].arg]>>
         \o ExpectedFrom(i + 1)
    ELSE ExpectedFrom(i + 1)

NoTuplePayload == \A i \in DOMAIN calls : Has(calls[i].arg, "v") => calls[i].arg.v # "tuple12"

\* C7: what recv returns are the messages sent on matching topics, one per recv call,
\* in the order sent, each with the topic and a payload equal to the one sent.  Stated
\* for payloads without tuples, which msgpack decodes as lists.
C7_RoundTrip ==
    NoTuplePayload =>
        \A j \in DOMAIN recvLog :
            /\ j <= Len(ExpectedFrom(1))
            /\ recvLog[j].outcome = "returned"
            /\ recvLog[j].topic = ExpectedFrom(1)[j].topic
            /\ recvLog[j].payload = ExpectedFrom(1)[j].payload

\* ------------------------------------------------------------------ C3
Valid(a) == a.outcome \notin {"KeyError", "TypeError"}

\* C3: on one Requester connection requests and replies alternate: a request that
\* returns has sent exactly one message and returns the one reply to it, at most one
\* request is unanswered at any time, and a request issued while the reply to an
\* earlier one has not been received fails (EFSM) without sending.
C3_Alternation ==
    /\ Len(reqOut) - Cardinality(Received) \in {0, 1}
    /\ Len(replies) <= 1
    /\ \A i \in DOMAIN reqLog :
          /\ reqLog[i].outstanding => reqLog[i].sent = 0
          /\ reqLog[i].outstanding /\ Valid(reqLog[i]) => reqLog[i].outcome = "EFSM"
          /\ reqLog[i].outcome = "returned" =>
                 /\ reqLog[i].sent = 1
                 /\ reqLog[i].reply = reqLog[i].req
                 /\ Len(reqOut[reqLog[i].req]) = IF reqLog[i].op = "notify" THEN 2 ELSE 1
    /\ Cardinality({i \in DOMAIN reqLog : reqLog[i].sent = 1}) = Len(reqOut)

\* a second request was refused while the first was unanswered, and a request returned
C3_Witness ==
    \E i, j \in DOMAIN reqLog :
        /\ reqLog[i].outstanding /\ reqLog[i].outcome = "EFSM"
        /\ reqLog[j].outcome = "returned" /\ reqLog[j].reply = reqLog[j].req

\* ------------------------------------------------------------------ C9
Exited(a) == apc[a] \in {"returned", "raised"}
Blocking(a) == events[a] # <<>>

\* C9: a blocking construction returns only after a connected event, having skipped
\* connect-delayed events only, and fails on any other event; on every exit the
\* monitor is disabled, and on failure the socket the constructor acquired is closed.
C9_ScopedAcquisition ==
    \A a \in Actors :
        /\ Exited(a) /\ Blocking(a) =>
              /\ \A k \in 1..(Len(events[a]) - 1) : events[a][k] = "EVENT_CONNECT_DELAYED"
              /\ apc[a] = "returned" <=> events[a][Len(events[a])] = "EVENT_CONNECTED"
              /\ events[a][Len(events[a])] # "EVENT_CONNECT_DELAYED"
        /\ Exited(a) => ~monitorOn[a]
        /\ apc[a] = "raised" => ~sockOpen[a]

====
